---- MODULE Spec2Model ----
(***************************************************************************)
(* Model of the catch / throw system `player_catch` of src/src/main.rs     *)
(* (cryscan/pumpkin-jam-2) together with the per-frame schedule it runs    *)
(* in: the input plugin updates the ActionState, the Update stage runs     *)
(* player_catch once, the physics plugin steps the world.                  *)
(*                                                                         *)
(* Numbers.  Every f32 of the program is modelled as an exact rational     *)
(* <<n, d>> in lowest terms with d > 0.  The coordinates, velocities and   *)
(* masses the model draws from are chosen so that every value the system   *)
(* computes (including the square root inside normalize_or_zero) is an     *)
(* exact rational; f32 rounding is outside the model.  A division by zero  *)
(* gives <<0, 0>>, which stands for the non-finite f32 values (inf, NaN)   *)
(* and is absorbing under the arithmetic.                                  *)
(***************************************************************************)
EXTENDS Integers, Sequences, FiniteSets

VARIABLES
    objects,        \* the CatchObject entities in query iteration order
                    \* (main.rs 520-528): [translation, linvel, mass, impulse]
    catcher,        \* GlobalTransform of the PlayerCatcher (main.rs 540-543):
                    \*   [translation, forward]
    action_state,   \* ActionState of Action::Catch (main.rs 532-535)
    stage,          \* which part of the frame runs next (main.rs 48-62)
    written,        \* history: indices whose impulse.impulse the last tick assigned
    prior,          \* history: the impulse the written object held before that tick
    press_seen,     \* history: Action::Catch has been pressed at least once
    launches        \* history: release-branch writes since the last press edge

vars == <<objects, catcher, action_state, stage, written, prior, press_seen,
          launches>>

(***************************************************************************)
(* Bounds of the model.                                                    *)
(***************************************************************************)
MaxObjects == 2

(***************************************************************************)
(* Exact rational arithmetic standing for f32.                             *)
(***************************************************************************)
Abs(x) == IF x < 0 THEN -x ELSE x

RECURSIVE Gcd(_, _)
Gcd(a, b) == IF b = 0 THEN a ELSE Gcd(b, a % b)

Q(n, d) ==
    IF d = 0 THEN <<0, 0>>
    ELSE LET g == Gcd(Abs(n), Abs(d))
             s == IF d < 0 THEN -1 ELSE 1
         IN  <<(s * n) \div g, (s * d) \div g>>

NonFinite == <<0, 0>>
is_finite(a) == a[2] # 0

QZero == <<0, 1>>
QOne == <<1, 1>>
QAdd(a, b) == Q(a[1] * b[2] + b[1] * a[2], a[2] * b[2])
QSub(a, b) == Q(a[1] * b[2] - b[1] * a[2], a[2] * b[2])
QMul(a, b) == Q(a[1] * b[1], a[2] * b[2])
QDiv(a, b) == Q(a[1] * b[2], a[2] * b[1])
QLess(a, b) == a[1] * b[2] < b[1] * a[2]
QLeq(a, b) == a[1] * b[2] <= b[1] * a[2]
\* f32::min
QMin(a, b) == IF QLess(b, a) THEN b ELSE a

RECURSIVE ISqrtFrom(_, _)
ISqrtFrom(n, k) == IF (k + 1) * (k + 1) > n THEN k ELSE ISqrtFrom(n, k + 1)
ISqrt(n) == ISqrtFrom(n, 0)
\* f32::sqrt, exact on the squares of rationals
QSqrt(a) == Q(ISqrt(a[1]), ISqrt(a[2]))

\* `x as u32`: truncation toward zero; negative values and NaN give 0
AsU32(a) == IF a[2] = 0 \/ a[1] < 0 THEN 0 ELSE a[1] \div a[2]

(***************************************************************************)
(* glam::Vec3                                                              *)
(***************************************************************************)
V(x, y, z) == <<x, y, z>>
VZero == V(QZero, QZero, QZero)
VAdd(a, b) == V(QAdd(a[1], b[1]), QAdd(a[2], b[2]), QAdd(a[3], b[3]))
VSub(a, b) == V(QSub(a[1], b[1]), QSub(a[2], b[2]), QSub(a[3], b[3]))
VScale(a, s) == V(QMul(a[1], s), QMul(a[2], s), QMul(a[3], s))
Dot(a, b) == QAdd(QAdd(QMul(a[1], b[1]), QMul(a[2], b[2])), QMul(a[3], b[3]))
length_squared(a) == Dot(a, a)
distance_squared(a, b) == length_squared(VSub(a, b))
length_recip(a) == QDiv(QOne, QSqrt(length_squared(a)))
\* Vec3::normalize: self * length_recip, not finite for the zero vector
normalize(a) == VScale(a, length_recip(a))
\* Vec3::normalize_or_zero: self * length_recip when that is finite and > 0
normalize_or_zero(a) ==
    IF is_finite(length_recip(a)) /\ QLess(QZero, length_recip(a))
    THEN VScale(a, length_recip(a))
    ELSE VZero

(***************************************************************************)
(* Player::default                                                         *)
(***************************************************************************)
max_catch_speed == 100
throw_speed == 200

(***************************************************************************)
(* ActionState<Action> of the input plugin: the button state of            *)
(* Action::Catch (bound to MouseButton::Right).  Once per frame the plugin *)
(* ticks the state (a Just* state lasts one frame) and then presses or     *)
(* releases it from the raw button.  The states are "Released",            *)
(* "JustPressed", "Pressed" and "JustReleased".                            *)
(***************************************************************************)
pressed(s) == s \in {"JustPressed", "Pressed"}
\* ActionState::released: the level, true on every frame the button is up
released(s) == ~pressed(s)
just_released(s) == s = "JustReleased"

Tick(s) ==
    CASE s = "JustPressed" -> "Pressed"
      [] s = "JustReleased" -> "Released"
      [] OTHER -> s

ApplyButton(s, down) ==
    IF down
    THEN (IF pressed(s) THEN s ELSE "JustPressed")
    ELSE (IF pressed(s) THEN "JustReleased" ELSE s)

(***************************************************************************)
(* player_catch                                                            *)
(***************************************************************************)
\* the key of min_by_key: distance_squared(catcher_position) as u32
Key(o, catcher_position) ==
    AsU32(distance_squared(o.translation, catcher_position))

\* a fold that lets the later of two equal keys win
RECURSIVE MinByKeyFrom_LastWins(_, _, _, _)
MinByKeyFrom_LastWins(objs, catcher_position, best, i) ==
    IF i > Len(objs) THEN best
    ELSE MinByKeyFrom_LastWins(objs, catcher_position,
             IF Key(objs[i], catcher_position) <= Key(objs[best], catcher_position)
             THEN i ELSE best,
             i + 1)
\* Iterator::min_by_key over the query: a left fold that keeps the earlier
\* element unless the later one has a strictly smaller key.  0 stands for None.
RECURSIVE MinByKeyFrom(_, _, _, _)
MinByKeyFrom(objs, catcher_position, best, i) ==
    IF i > Len(objs) THEN best
    ELSE MinByKeyFrom(objs, catcher_position,
             IF Key(objs[i], catcher_position) < Key(objs[best], catcher_position)
             THEN i ELSE best,
             i + 1)

Closest(objs, catcher_position) ==
    IF Len(objs) = 0 THEN 0 ELSE MinByKeyFrom(objs, catcher_position, 1, 2)

\* the difference taken the other way round
delta_position_reversed(o, catcher_position) == VSub(o.translation, catcher_position)
delta_position(o, catcher_position) == VSub(catcher_position, o.translation)

\* the approach speed without its cap
HoldSpeed_Uncapped(dp) == QMul(Q(10, 1), length_squared(dp))
\* line 553: (10.0 * delta_position.length_squared()).min(max_catch_speed)
HoldSpeed(dp) == QMin(QMul(Q(10, 1), length_squared(dp)), Q(max_catch_speed, 1))

\* the catch_pressed branch with normalize in place of normalize_or_zero
HoldImpulse_Unguarded(o, cat) ==
    LET dp == delta_position(o, cat.translation)
        speed == HoldSpeed(dp)
        delta_velocity == VSub(VScale(normalize(dp), speed), o.linvel)
    IN  VScale(delta_velocity, o.mass)
\* lines 553-555: the impulse of the catch_pressed branch
HoldImpulse(o, cat) ==
    LET dp == delta_position(o, cat.translation)
        speed == HoldSpeed(dp)
        delta_velocity == VSub(VScale(normalize_or_zero(dp), speed), o.linvel)
    IN  VScale(delta_velocity, o.mass)

\* the launch speed growing with the distance instead of falling
ThrowSpeed_Multiplied(dp) ==
    QMul(QAdd(length_squared(dp), QOne), Q(throw_speed, 1))
\* line 557: 1.0 / (delta_position.length_squared() + 1.0) * throw_speed
ThrowSpeed(dp) ==
    QMul(QDiv(QOne, QAdd(length_squared(dp), QOne)), Q(throw_speed, 1))

\* the launch thrown along delta_position instead of the catcher's forward
ReleaseImpulse_AlongDelta(o, cat) ==
    LET dp == delta_position(o, cat.translation)
        speed == ThrowSpeed(dp)
        delta_velocity == VScale(normalize_or_zero(dp), speed)
    IN  VScale(delta_velocity, o.mass)
\* lines 557-559: the impulse of the catch_just_released branch
ReleaseImpulse(o, cat) ==
    LET dp == delta_position(o, cat.translation)
        speed == ThrowSpeed(dp)
        delta_velocity == VScale(cat.forward, speed)
    IN  VScale(delta_velocity, o.mass)

\* a run that takes the lack of a selection for a selection
Writes_Unchecked(objs, cat, s) ==
    IF pressed(s) \/ just_released(s) THEN {Closest(objs, cat.translation)} ELSE {}
\* the indices whose impulse.impulse one run of player_catch assigns
Writes(objs, cat, s) ==
    IF Closest(objs, cat.translation) # 0 /\ (pressed(s) \/ just_released(s))
    THEN {Closest(objs, cat.translation)}
    ELSE {}

\* the value assigned to impulse.impulse of the selected object
Assigned(objs, cat, s, t) ==
    IF pressed(s) THEN HoldImpulse(objs[t], cat) ELSE ReleaseImpulse(objs[t], cat)

\* a run that writes every object of the query instead of the selected one
CatchResult_AllBodies(objs, cat, s) ==
    [i \in 1..Len(objs) |->
        IF Writes(objs, cat, s) # {}
        THEN [objs[i] EXCEPT !.impulse = Assigned(objs, cat, s, i)]
        ELSE objs[i]]
\* a run that adds to impulse.impulse (+=) instead of assigning it
CatchResult_Accumulate(objs, cat, s) ==
    [i \in 1..Len(objs) |->
        IF i \in Writes(objs, cat, s)
        THEN [objs[i] EXCEPT !.impulse = VAdd(@, Assigned(objs, cat, s, i))]
        ELSE objs[i]]
\* the query's objects after one run of player_catch
CatchResult(objs, cat, s) ==
    [i \in 1..Len(objs) |->
        IF i \in Writes(objs, cat, s)
        THEN [objs[i] EXCEPT !.impulse = Assigned(objs, cat, s, i)]
        ELSE objs[i]]

(***************************************************************************)
(* The values the model draws the world from.                              *)
(***************************************************************************)
P(x, y, z) == V(Q(x, 2), Q(y, 2), Q(z, 2))     \* a point given in half units

\* position and linear velocity of a body
Kinematics == {[translation |-> P(0, 0, 0), linvel |-> V(QOne, QZero, Q(-2, 1))],
               [translation |-> P(0, 0, 1), linvel |-> VZero],
               [translation |-> P(0, 0, 10), linvel |-> V(QOne, QZero, Q(-2, 1))],
               [translation |-> P(6, 8, 0), linvel |-> VZero]}
Masses == {Q(1, 1), Q(2, 1)}
Poses == {[translation |-> P(0, 0, 0), forward |-> V(QZero, QZero, QOne)],
          [translation |-> P(0, 0, 24), forward |-> V(QOne, QZero, QZero)]}

\* setup_scene spawns every CatchObject as a cube with the same collider, so
\* the bodies of one world share their mass
Bodies(m) == {[translation |-> k.translation, linvel |-> k.linvel, mass |-> m,
               impulse |-> VZero] : k \in Kinematics}

ObjectLists == UNION {[1..n -> Bodies(m)] : n \in 0..MaxObjects, m \in Masses}

(***************************************************************************)
(* The frame loop.                                                         *)
(***************************************************************************)
Init ==
    /\ objects \in ObjectLists
    /\ catcher \in Poses
    /\ action_state = "Released"
    /\ stage = "input"
    /\ written = {}
    /\ prior = VZero
    /\ press_seen = FALSE
    /\ launches = 0

\* InputManagerPlugin, PreUpdate: tick, then read the raw mouse button
InputUpdate ==
    /\ stage = "input"
    /\ \E down \in BOOLEAN :
          /\ action_state' = ApplyButton(Tick(action_state), down)
          /\ press_seen' = (press_seen \/ down)
          /\ launches' = IF ApplyButton(Tick(action_state), down) = "JustPressed"
                         THEN 0 ELSE launches
    /\ stage' = "update"
    /\ UNCHANGED <<objects, catcher, written, prior>>

\* Update stage: the system player_catch runs once
PlayerCatch ==
    /\ stage = "update"
    /\ objects' = CatchResult(objects, catcher, action_state)
    /\ written' = Writes(objects, catcher, action_state)
    /\ prior' = IF Writes(objects, catcher, action_state) \cap DOMAIN objects # {}
                THEN objects[Closest(objects, catcher.translation)].impulse
                ELSE VZero
    /\ launches' = IF Writes(objects, catcher, action_state) # {}
                      /\ ~pressed(action_state) /\ launches < 2
                   THEN launches + 1 ELSE launches
    /\ stage' = "physics"
    /\ UNCHANGED <<catcher, action_state, press_seen>>

\* End of a frame in which RapierPhysicsPlugin steps the world: the pending
\* impulses are consumed and reset; the solver is external, so a body may end
\* anywhere in the modelled world.  Transform propagation gives the catcher
\* the pose the player's movement and look leave it in.
PhysicsStep ==
    /\ stage = "physics"
    /\ \E k \in 0..Len(objects), kin \in Kinematics :
          objects' = [i \in 1..Len(objects) |->
              [objects[i] EXCEPT
                  !.translation = IF i = k THEN kin.translation ELSE @,
                  !.linvel = IF i = k THEN kin.linvel ELSE @,
                  !.impulse = VZero]]
    /\ catcher' \in Poses
    /\ stage' = "input"
    /\ UNCHANGED <<action_state, written, prior, press_seen, launches>>

\* End of a frame in which the engine does not step the world (it integrates
\* impulses on its own schedule): bodies and pending impulses stay as they
\* are, the catcher still follows the player.
PhysicsIdle ==
    /\ stage = "physics"
    /\ catcher' \in Poses
    /\ stage' = "input"
    /\ UNCHANGED <<objects, action_state, written, prior, press_seen, launches>>

Next == InputUpdate \/ PlayerCatch \/ PhysicsStep \/ PhysicsIdle

Spec == Init /\ [][Next]_vars

(***************************************************************************)
(* Properties.  A state with stage = "physics" is the state right after a  *)
(* run of player_catch: the positions, velocities, masses, catcher and     *)
(* action state are those the run read, `written` the fields it assigned.  *)
(* The properties recompute what they need from the fields of the state,   *)
(* with plain vector arithmetic, not with the operators of player_catch.   *)
(***************************************************************************)
Ticked == stage = "physics"

\* squared distance of object i to the catcher, and the vector to the catcher
Dist2(i) == length_squared(VSub(objects[i].translation, catcher.translation))
ToCatcher(i) == VSub(catcher.translation, objects[i].translation)

Cross(a, b) ==
    V(QSub(QMul(a[2], b[3]), QMul(a[3], b[2])),
      QSub(QMul(a[3], b[1]), QMul(a[1], b[3])),
      QSub(QMul(a[1], b[2]), QMul(a[2], b[1])))

\* the velocity a written impulse asks for on top of nothing: impulse / mass
PerMass(i) == VScale(objects[i].impulse, QDiv(QOne, objects[i].mass))
\* the desired velocity a hold impulse encodes: impulse / mass + linvel
Desired(i) == VAdd(PerMass(i), objects[i].linvel)

HoldTick == Ticked /\ action_state \in {"JustPressed", "Pressed"} /\ written # {}
ReleaseTick == Ticked /\ action_state = "JustReleased" /\ written # {}

\* C1: the object player_catch selects has the minimum squared distance to
\* the catcher: no capturable object is strictly closer than the selected one.
C1_SelectedIsNearest ==
    Ticked =>
        \A t \in written : \A j \in 1..Len(objects) : ~QLess(Dist2(j), Dist2(t))

C3_LaunchOnce ==
    /\ launches <= 1
    /\ (Ticked /\ action_state = "JustReleased" /\ Len(objects) > 0) =>
          /\ launches = 1
          /\ written = {Closest(objects, catcher.translation)}
          /\ \A t \in written : objects[t].impulse # VZero
    /\ (Ticked /\ action_state = "Released") => written = {}
    /\ (action_state = "Released" /\ press_seen /\ Len(objects) > 0) => launches = 1

\* the trigger was pressed, released, and has stayed released through a later run
C3_Witness ==
    /\ Ticked
    /\ action_state = "Released"
    /\ press_seen
    /\ Len(objects) > 0
    /\ launches = 1

\* C4: on a pressed frame the impulse of the selected object is
\* (v_des - v) * mass with v_des = normalize(dp) * min(10 |dp|^2, max_catch_speed):
\* impulse / mass + v points along dp and has that length; for the catcher at
\* the origin, the object at (0,0,5) and mass 2 it is ((0,0,-100) - v) * 2.
C4_HoldImpulse ==
    HoldTick =>
        \A t \in written :
            LET dp == ToCatcher(t)
                s == IF QLess(Q(100, 1), QMul(Q(10, 1), length_squared(dp)))
                     THEN Q(100, 1) ELSE QMul(Q(10, 1), length_squared(dp))
            IN  /\ Cross(Desired(t), dp) = VZero
                /\ QLeq(QZero, Dot(Desired(t), dp))
                /\ length_squared(Desired(t)) = QMul(s, s)
                /\ (catcher.translation = VZero
                      /\ objects[t].translation = V(QZero, QZero, Q(5, 1))
                      /\ objects[t].mass = Q(2, 1)) =>
                        objects[t].impulse =
                            VScale(VSub(V(QZero, QZero, Q(-100, 1)), objects[t].linvel),
                                   Q(2, 1))

\* the concrete scenario: catcher at the origin, object at (0,0,5), mass 2, moving
C4_Witness ==
    /\ HoldTick
    /\ catcher.translation = VZero
    /\ \E t \in written :
          /\ objects[t].translation = V(QZero, QZero, Q(5, 1))
          /\ objects[t].mass = Q(2, 1)
          /\ objects[t].linvel # VZero

\* C5: on a just-released frame the impulse of the selected object is
\* F_c * (throw_speed / (|dp|^2 + 1)) * mass: it lies along the catcher's
\* forward vector whatever dp is, an object at the same squared distance
\* elsewhere would get the same impulse per unit mass, and for the object at
\* (0,0,5), mass 2, F_c = (0,0,1) it is (0, 0, 200/26 * 2).
C5_ReleaseImpulse ==
    ReleaseTick =>
        \A t \in written :
            /\ PerMass(t) = VScale(catcher.forward, Dot(PerMass(t), catcher.forward))
            /\ QMul(Dot(PerMass(t), catcher.forward), QAdd(Dist2(t), QOne)) = Q(200, 1)
            /\ \A j \in 1..Len(objects) :
                  Dist2(j) = Dist2(t) =>
                      VScale(ReleaseImpulse(objects[j], catcher),
                             QDiv(QOne, objects[j].mass)) = PerMass(t)
            /\ (catcher = [translation |-> VZero, forward |-> V(QZero, QZero, QOne)]
                  /\ objects[t].translation = V(QZero, QZero, Q(5, 1))
                  /\ objects[t].mass = Q(2, 1)) =>
                        objects[t].impulse = V(QZero, QZero, Q(400, 26))

\* a release acted while another object sits at the same squared distance in
\* another direction
C5_Witness ==
    /\ ReleaseTick
    /\ \E t \in written : \E j \in 1..Len(objects) :
          /\ Dist2(j) = Dist2(t)
          /\ objects[j].translation # objects[t].translation
          /\ Cross(ToCatcher(t), catcher.forward) = VZero
          /\ Cross(ToCatcher(j), catcher.forward) # VZero

\* C6 as stated: the run adds its impulse J to the pending impulse of the
\* selected object (after = before + J).
C6_Accumulates ==
    (Ticked /\ written # {}) =>
        \A t \in written :
            objects[t].impulse =
                VAdd(prior, Assigned(objects, catcher, action_state, t))

\* C6 amended: the run assigns J to the impulse of the selected object, so
\* after the run it equals J whatever was pending before.
C6_Overwrites ==
    (Ticked /\ written # {}) =>
        \A t \in written :
            objects[t].impulse = Assigned(objects, catcher, action_state, t)

\* a run wrote an object whose impulse was still pending
C6_Witness ==
    /\ Ticked
    /\ written # {}
    /\ prior # VZero

\* C7: the approach speed min(10 |dp|^2, max_catch_speed) never exceeds
\* max_catch_speed, equals it once |dp|^2 >= max_catch_speed / 10, and the
\* hold impulse is at most (max_catch_speed + |v|) * mass in length.
C7_SpeedSaturates ==
    /\ \A i \in 1..Len(objects) :
          /\ QLeq(HoldSpeed(ToCatcher(i)), Q(100, 1))
          /\ QLeq(Q(10, 1), Dist2(i)) => HoldSpeed(ToCatcher(i)) = Q(100, 1)
    /\ HoldTick =>
          \A t \in written :
              LET v2 == length_squared(objects[t].linvel)
                  j2 == length_squared(PerMass(t))
                  \* |J|/m <= 100 + |v|  iff  j2 - 100^2 - v2 <= 2 * 100 * |v|
                  x == QSub(QSub(j2, Q(10000, 1)), v2)
              IN  /\ QLeq(length_squared(Desired(t)), Q(10000, 1))
                  /\ QLeq(Q(10, 1), Dist2(t)) =>
                        length_squared(Desired(t)) = Q(10000, 1)
                  /\ \/ QLeq(x, QZero)
                     \/ QLeq(QMul(x, x), QMul(Q(40000, 1), v2))

\* a hold acted on an object far enough for the speed to be capped
C7_Witness ==
    /\ HoldTick
    /\ \E t \in written : QLess(Q(10, 1), Dist2(t)) /\ objects[t].linvel # VZero

\* C8: a hold on an object exactly at the catcher writes -v * mass: the
\* desired velocity is zero and every component written is a proper number.
C8_ZeroDistanceHold ==
    HoldTick =>
        \A t \in written :
            objects[t].translation = catcher.translation =>
                /\ Desired(t) = VZero
                /\ objects[t].impulse =
                      VScale(objects[t].linvel, QSub(QZero, objects[t].mass))
                /\ \A c \in 1..3 : objects[t].impulse[c] # NonFinite

\* a hold acted on a moving object sitting exactly at the catcher
C8_Witness ==
    /\ HoldTick
    /\ \E t \in written :
          /\ objects[t].translation = catcher.translation
          /\ objects[t].linvel # VZero

\* C9: with no capturable object a run of player_catch writes nothing in any
\* trigger state, and the frame goes on to the next stage.
C9_EmptyIsNoOp ==
    Len(objects) = 0 =>
        /\ written = {}
        /\ launches = 0
        /\ prior = VZero
        /\ stage \in {"input", "update", "physics"}

\* a run took place with the trigger pressed and no object, and one on release
C9_Witness ==
    /\ Ticked
    /\ Len(objects) = 0
    /\ action_state = "JustReleased"
    /\ press_seen

\* C10: the launch speed throw_speed / (|dp|^2 + 1) is positive, at most
\* throw_speed, equal to throw_speed at distance zero, and strictly smaller
\* for an object strictly farther away (strictly larger for a closer one).
C10_LaunchSpeedFalloff ==
    ReleaseTick =>
        \A t \in written :
            LET s == Dot(PerMass(t), catcher.forward)
            IN  /\ QLess(QZero, s)
                /\ QLeq(s, Q(200, 1))
                /\ Dist2(t) = QZero => s = Q(200, 1)
                /\ \A j \in 1..Len(objects) :
                      /\ QLess(Dist2(t), Dist2(j)) => QLess(ThrowSpeed(ToCatcher(j)), s)
                      /\ QLess(Dist2(j), Dist2(t)) => QLess(s, ThrowSpeed(ToCatcher(j)))

\* a release acted at a positive distance, with one object farther and one closer
C10_Witness ==
    /\ ReleaseTick
    /\ \E t \in written : \E j \in 1..Len(objects) :
          /\ QLess(QZero, Dist2(t))
          /\ QLess(Dist2(j), Dist2(t))

\* the whole part of the squared distance of object i (it is never negative)
Floor2(i) == Dist2(i)[1] \div Dist2(i)[2]

====
